---- MODULE Spec2Model ----
(***************************************************************************)
(* pdf-shrinker (src/index.js): a command-line tool that validates its     *)
(* options, maps a compression level to a Ghostscript argument vector,     *)
(* spawns `gs`, animates a progress bar on a timer and reports the result. *)
(*                                                                         *)
(* Strings that the code inspects character by character (paths, the raw   *)
(* level, decoded stream chunks) are sequences of one-character strings;   *)
(* Str joins such a sequence into a TLA+ string where the code only        *)
(* concatenates or prints it.                                              *)
(***************************************************************************)
EXTENDS Integers, Sequences, FiniteSets, TLC

\* ------------------------------------------------------------------ bounds

\* Number of 'data' events (stdout and stderr together) one child emits.
MaxChunks == 2

\* ------------------------------------------------------- string primitives

RECURSIVE Str(_)
\* A character sequence as one string (template-literal interpolation).
Str(s) == IF s = <<>> THEN "" ELSE Head(s) \o Str(Tail(s))

RECURSIVE Join(_, _)
\* Array.prototype.join(sep) on an array of strings.
Join(arr, sep) ==
  IF arr = <<>> THEN ""
  ELSE IF Len(arr) = 1 THEN arr[1]
  ELSE arr[1] \o sep \o Join(Tail(arr), sep)

Upper == << "A","B","C","D","E","F","G","H","I","J","K","L","M",
            "N","O","P","Q","R","S","T","U","V","W","X","Y","Z" >>
Lower == << "a","b","c","d","e","f","g","h","i","j","k","l","m",
            "n","o","p","q","r","s","t","u","v","w","x","y","z" >>

\* One character of String.prototype.toLowerCase, for ASCII; no character
\* outside ASCII lower-cases to a character of ".pdf".
LowerChar(c) ==
  IF \E i \in 1..26 : Upper[i] = c
  THEN Lower[CHOOSE i \in 1..26 : Upper[i] = c]
  ELSE c

\* String.prototype.toLowerCase.
toLowerCase(s) == [i \in 1..Len(s) |-> LowerChar(s[i])]

\* String.prototype.endsWith.
endsWith(s, suffix) ==
  /\ Len(s) >= Len(suffix)
  /\ SubSeq(s, Len(s) - Len(suffix) + 1, Len(s)) = suffix

\* A character outside ASCII is written as its decimal character reference
\* ("&#233;" is U+00E9) and counts as one character of a sequence.
CharRef(codePoint) == "&#" \o ToString(codePoint) \o ";"

\* The white space of trim and parseInt (WhiteSpace and LineTerminator of
\* ECMAScript): TAB, LF, VT, FF, CR, SP, NBSP, U+FEFF, U+2028, U+2029 and
\* the category Zs.
WhiteSpace ==
  {"\t", "\n", CharRef(11), "\f", "\r", " "}
    \cup {CharRef(160), CharRef(5760), CharRef(8232), CharRef(8233),
          CharRef(8239), CharRef(8287), CharRef(12288), CharRef(65279)}
    \cup {CharRef(n) : n \in 8192..8202}

RECURSIVE TrimStart(_)
TrimStart(s) ==
  IF s # <<>> /\ Head(s) \in WhiteSpace THEN TrimStart(Tail(s)) ELSE s

RECURSIVE TrimEnd(_)
TrimEnd(s) ==
  IF s # <<>> /\ s[Len(s)] \in WhiteSpace
  THEN TrimEnd(SubSeq(s, 1, Len(s) - 1)) ELSE s

\* String.prototype.trim.
trim(s) == TrimEnd(TrimStart(s))

\* ------------------------------------------------------------- parseInt

\* JavaScript values that are not strings: a number n, NaN and null.
Num(n) == [num |-> n]

\* The result of parseInt when no digit can be read.
NaN == [nan |-> TRUE]

Null == [null |-> TRUE]

isNaN(x) == x = NaN

\* `${x}` for a number or null.
JsText(x) ==
  IF x = Null THEN "null" ELSE IF x = NaN THEN "NaN" ELSE ToString(x.num)

HexDigits == << "0","1","2","3","4","5","6","7","8","9",
                "a","b","c","d","e","f" >>

\* The value of character c as a digit of the radix, or -1.
DigitValue(c, radix) ==
  LET lc == LowerChar(c)
  IN  IF \E i \in 1..radix : HexDigits[i] = lc
      THEN (CHOOSE i \in 1..radix : HexDigits[i] = lc) - 1
      ELSE -1

RECURSIVE ParseDigits(_, _, _, _)
\* Reads the longest prefix of digits; seen = whether a digit has been read.
\* The result is a number or NaN.
ParseDigits(s, radix, acc, seen) ==
  IF s # <<>> /\ DigitValue(Head(s), radix) >= 0
  THEN ParseDigits(Tail(s), radix, acc * radix + DigitValue(Head(s), radix), TRUE)
  ELSE IF seen THEN Num(acc) ELSE NaN

\* parseInt(string) with no radix argument: leading white space is skipped,
\* an optional sign is read, a 0x / 0X prefix selects radix 16, and the
\* longest prefix of digits is converted; NaN when there is none. For
\* strings of at most nine digits (the integers of the model checker).
parseInt(str) ==
  LET s0   == TrimStart(str)
      neg  == s0 # <<>> /\ Head(s0) = "-"
      s1   == IF s0 # <<>> /\ Head(s0) \in {"+", "-"} THEN Tail(s0) ELSE s0
      hex  == Len(s1) >= 2 /\ s1[1] = "0" /\ s1[2] \in {"x", "X"}
      s2   == IF hex THEN SubSeq(s1, 3, Len(s1)) ELSE s1
      mag  == ParseDigits(s2, IF hex THEN 16 ELSE 10, 0, FALSE)
  IN  IF isNaN(mag) THEN NaN ELSE IF neg THEN Num(0 - mag.num) ELSE mag

\* JavaScript's < and > on numbers: every comparison with NaN is false.
JsLt(a, b) == ~isNaN(a) /\ ~isNaN(b) /\ a.num < b.num
JsGt(a, b) == ~isNaN(a) /\ ~isNaN(b) /\ a.num > b.num

\* ------------------------------------------------------------------ path

\* Index of the last occurrence of character c in s, 0 when absent.
LastIndexOf(s, c) ==
  IF \E i \in 1..Len(s) : s[i] = c
  THEN CHOOSE i \in 1..Len(s) : s[i] = c /\ \A j \in (i+1)..Len(s) : s[j] # c
  ELSE 0

\* path.parse (POSIX): dir, base, name, ext, for a path that does not end in
\* a separator (line 36 has made sure it ends in ".pdf").
pathParse(p) ==
  LET i    == LastIndexOf(p, "/")
      dir  == IF i = 0 THEN <<>> ELSE IF i = 1 THEN <<"/">> ELSE SubSeq(p, 1, i - 1)
      base == SubSeq(p, i + 1, Len(p))
      j    == LastIndexOf(base, ".")
      ext  == IF j <= 1 THEN <<>> ELSE SubSeq(base, j, Len(base))
      name == IF j <= 1 THEN base ELSE SubSeq(base, 1, j - 1)
  IN  [dir |-> dir, base |-> base, name |-> name, ext |-> ext]

RECURSIVE Split(_, _)
\* The segments of a path between its separators (empty ones included).
Split(p, cur) ==
  IF p = << >> THEN << cur >>
  ELSE IF Head(p) = "/" THEN << cur >> \o Split(Tail(p), << >>)
  ELSE Split(Tail(p), Append(cur, Head(p)))

DotDot == << ".", "." >>

RECURSIVE NormalizeSegments(_, _, _)
\* normalizeString of path.normalize: empty and "." segments are dropped,
\* ".." removes the segment before it, or is kept when there is none to
\* remove and the path is relative.
NormalizeSegments(segs, res, allowAboveRoot) ==
  IF segs = << >> THEN res
  ELSE LET seg == Head(segs)
           rest == Tail(segs)
       IN  IF seg = << >> \/ seg = << "." >>
           THEN NormalizeSegments(rest, res, allowAboveRoot)
           ELSE IF seg = DotDot
           THEN IF res # << >> /\ res[Len(res)] # DotDot
                THEN NormalizeSegments(rest, SubSeq(res, 1, Len(res) - 1), allowAboveRoot)
                ELSE IF allowAboveRoot
                THEN NormalizeSegments(rest, Append(res, seg), allowAboveRoot)
                ELSE NormalizeSegments(rest, res, allowAboveRoot)
           ELSE NormalizeSegments(rest, Append(res, seg), allowAboveRoot)

RECURSIVE JoinSegments(_)
JoinSegments(segs) ==
  IF segs = << >> THEN << >>
  ELSE IF Len(segs) = 1 THEN segs[1]
  ELSE segs[1] \o << "/" >> \o JoinSegments(Tail(segs))

\* path.normalize (POSIX).
pathNormalize(p) ==
  IF p = << >> THEN << "." >>
  ELSE LET isAbsolute == p[1] = "/"
           trailing   == p[Len(p)] = "/"
           body       == JoinSegments(NormalizeSegments(Split(p, << >>), << >>, ~isAbsolute))
           body2      == IF body = << >>
                         THEN (IF isAbsolute THEN << >>
                               ELSE IF trailing THEN << ".", "/" >> ELSE << "." >>)
                         ELSE IF trailing THEN body \o << "/" >> ELSE body
       IN  IF isAbsolute THEN << "/" >> \o body2 ELSE body2

\* path.join(dir, file) (POSIX): the non-empty arguments joined by "/", then
\* normalised.
pathJoin(dir, file) ==
  LET joined == IF dir = << >> THEN file
                ELSE IF file = << >> THEN dir
                ELSE dir \o << "/" >> \o file
  IN  pathNormalize(joined)

\* ------------------------------------------------------------ level table

baseOptions ==
  << "-sDEVICE=pdfwrite", "-dNOPAUSE", "-dQUIET", "-dBATCH", "-dSAFER" >>

Level1Options ==
  << "-dPDFSETTINGS=/prepress", "-dCompatibilityLevel=1.7",
     "-dColorImageResolution=300", "-dGrayImageResolution=300",
     "-dMonoImageResolution=300",
     "-dColorImageDownsampleType=/Bicubic", "-dGrayImageDownsampleType=/Bicubic",
     "-dMonoImageDownsampleType=/Bicubic",
     "-dAutoFilterColorImages=false", "-dAutoFilterGrayImages=false",
     "-dColorImageFilter=/DCTEncode", "-dGrayImageFilter=/DCTEncode",
     "-dJPEGQ=95" >>

Level2Options ==
  << "-dPDFSETTINGS=/printer", "-dCompatibilityLevel=1.6",
     "-dColorImageResolution=150", "-dGrayImageResolution=150",
     "-dMonoImageResolution=200",
     "-dColorImageDownsampleType=/Bicubic", "-dGrayImageDownsampleType=/Bicubic",
     "-dMonoImageDownsampleType=/Bicubic",
     "-dAutoFilterColorImages=true", "-dAutoFilterGrayImages=true",
     "-dColorImageFilter=/DCTEncode", "-dGrayImageFilter=/DCTEncode",
     "-dJPEGQ=85" >>

Level3Options ==
  << "-dPDFSETTINGS=/ebook", "-dCompatibilityLevel=1.5",
     "-dColorImageResolution=110", "-dGrayImageResolution=110",
     "-dMonoImageResolution=150",
     "-dColorImageDownsampleType=/Average", "-dGrayImageDownsampleType=/Average",
     "-dMonoImageDownsampleType=/Bicubic",
     "-dAutoFilterColorImages=true", "-dAutoFilterGrayImages=true",
     "-dColorImageFilter=/DCTEncode", "-dGrayImageFilter=/DCTEncode",
     "-dJPEGQ=80" >>

Level4Options ==
  << "-dPDFSETTINGS=/ebook", "-dCompatibilityLevel=1.5",
     "-dColorImageResolution=96", "-dGrayImageResolution=96",
     "-dMonoImageResolution=150",
     "-dColorImageDownsampleType=/Average", "-dGrayImageDownsampleType=/Average",
     "-dMonoImageDownsampleType=/Subsample",
     "-dAutoFilterColorImages=true", "-dAutoFilterGrayImages=true",
     "-dColorImageFilter=/DCTEncode", "-dGrayImageFilter=/DCTEncode",
     "-dJPEGQ=75" >>

Level5Options ==
  << "-dPDFSETTINGS=/screen", "-dCompatibilityLevel=1.4",
     "-dColorImageResolution=72", "-dGrayImageResolution=72",
     "-dMonoImageResolution=72",
     "-dColorImageDownsampleType=/Average", "-dGrayImageDownsampleType=/Average",
     "-dMonoImageDownsampleType=/Subsample",
     "-dAutoFilterColorImages=true", "-dAutoFilterGrayImages=true",
     "-dColorImageFilter=/DCTEncode", "-dGrayImageFilter=/DCTEncode",
     "-dJPEGQ=50",
     "-dEmbedAllFonts=false", "-dSubsetFonts=true", "-dCompressFonts=true",
     "-dConvertCMYKImagesToRGB=true", "-dDetectDuplicateImages=true",
     "-dOptimize=true" >>

\* Whether the switch of getGsOptionsForLevel falls to its default branch.
TakesDefaultBranch(level) == level \notin {Num(1), Num(2), Num(3), Num(4), Num(5)}

\* The variant in which the case for level 4 is missing from the switch.
getGsOptionsForLevel_NoCase4(level) ==
  CASE level = Num(1) -> baseOptions \o Level1Options
    [] level = Num(2) -> baseOptions \o Level2Options
    [] level = Num(5) -> baseOptions \o Level5Options
    [] OTHER          -> baseOptions \o Level3Options

RECURSIVE getGsOptionsForLevel(_)
\* The switch compares with ===, so only the numbers 1..5 select a case.
getGsOptionsForLevel(level) ==
  CASE level = Num(1) -> baseOptions \o Level1Options
    [] level = Num(2) -> baseOptions \o Level2Options
    [] level = Num(3) -> baseOptions \o Level3Options
    [] level = Num(4) -> baseOptions \o Level4Options
    [] level = Num(5) -> baseOptions \o Level5Options
    [] OTHER          -> getGsOptionsForLevel(Num(3))

\* The argument vector of the engine: the options of the level, then the
\* output-file option, then the input path.
gsOptionsFor(level, output, input) ==
  Append(Append(getGsOptionsForLevel(level), "-sOutputFile=" \o Str(output)),
         Str(input))

\* ----------------------------------------------------------------- errors

\* An Error object: its message and the source line of its `new Error`.
Error(message, line) == [message |-> message, at |-> line]

NoError == Error("", 0)

\* One line written to the console by the call at source line `line`.
Line(line, text) == [at |-> line, text |-> text]

\* ------------------------------------------------------- validateOptions

PdfSuffix == << ".", "p", "d", "f" >>

CompressedSuffix == << "-", "c", "o", "m", "p", "r", "e", "s", "s", "e", "d",
                       ".", "p", "d", "f" >>

\* options.output after the defaulting step of validateOptions.
DefaultedOutput(opts) ==
  IF opts.output = <<>>
  THEN pathJoin(pathParse(opts.input).dir,
                pathParse(opts.input).name \o CompressedSuffix)
  ELSE opts.output

OutputNotice(opts) ==
  IF opts.output = <<>>
  THEN << Line(44, "No output specified, using: " \o Str(DefaultedOutput(opts))) >>
  ELSE << >>

\* The result of one run of validateOptions: thrown = the Error it throws
\* (NoError when it returns), options = the options object as it leaves it,
\* level = the number it parsed, notices = what it printed.
Validation(thrown, opts, level, notices) ==
  [thrown |-> thrown, options |-> opts, level |-> level, notices |-> notices]

\* The variant that accepts every level that is a number.
validateOptions_NoRangeCheck(opts, inputExists) ==
  LET out   == [opts EXCEPT !.output = DefaultedOutput(opts)]
      level == parseInt(opts.level)
  IN  IF ~inputExists
      THEN Validation(Error("Input file not found: " \o Str(opts.input), 32),
                      opts, NaN, << >>)
      ELSE IF ~endsWith(toLowerCase(opts.input), PdfSuffix)
      THEN Validation(Error("Input file must be a PDF", 37), opts, NaN, << >>)
      ELSE IF isNaN(level)
      THEN Validation(Error("Compression level must be between 1 and 5", 50),
                      out, level, OutputNotice(opts))
      ELSE Validation(NoError, out, level, OutputNotice(opts))

\* The variant that does not test the suffix of the input path.
validateOptions_NoSuffixCheck(opts, inputExists) ==
  LET out   == [opts EXCEPT !.output = DefaultedOutput(opts)]
      level == parseInt(opts.level)
  IN  IF ~inputExists
      THEN Validation(Error("Input file not found: " \o Str(opts.input), 32),
                      opts, NaN, << >>)
      ELSE IF isNaN(level) \/ JsLt(level, Num(1)) \/ JsGt(level, Num(5))
      THEN Validation(Error("Compression level must be between 1 and 5", 50),
                      out, level, OutputNotice(opts))
      ELSE Validation(NoError, out, level, OutputNotice(opts))

validateOptions(opts, inputExists) ==
  LET out   == [opts EXCEPT !.output = DefaultedOutput(opts)]
      level == parseInt(opts.level)
  IN  IF ~inputExists
      THEN Validation(Error("Input file not found: " \o Str(opts.input), 32),
                      opts, NaN, << >>)
      ELSE IF ~endsWith(toLowerCase(opts.input), PdfSuffix)
      THEN Validation(Error("Input file must be a PDF", 37), opts, NaN, << >>)
      ELSE IF isNaN(level) \/ JsLt(level, Num(1)) \/ JsGt(level, Num(5))
      THEN Validation(Error("Compression level must be between 1 and 5", 50),
                      out, level, OutputNotice(opts))
      ELSE Validation(NoError, out, level, OutputNotice(opts))

\* ------------------------------------------------- Buffer.prototype.toString

\* The characters of the bytes 32..126. The grave accent, which a string of
\* this language cannot hold, is written as its character reference.
Printable ==
  << " ", "!", "\"", "#", "$", "%", "&", "'", "(", ")", "*", "+",
     ",", "-", ".", "/", "0", "1", "2", "3", "4", "5", "6", "7",
     "8", "9", ":", ";", "<", "=", ">", "?", "@", "A", "B", "C",
     "D", "E", "F", "G", "H", "I", "J", "K", "L", "M", "N", "O",
     "P", "Q", "R", "S", "T", "U", "V", "W", "X", "Y", "Z", "[",
     "\\", "]", "^", "_", "&#96;", "a", "b", "c", "d", "e", "f", "g",
     "h", "i", "j", "k", "l", "m", "n", "o", "p", "q", "r", "s",
     "t", "u", "v", "w", "x", "y", "z", "{", "|", "}", "~" >>

\* The character of an ASCII byte (0..127).
AsciiChar(b) ==
  IF b \in 32..126 THEN Printable[b - 31]
  ELSE CASE b = 9  -> "\t"
         [] b = 10 -> "\n"
         [] b = 12 -> "\f"
         [] b = 13 -> "\r"
         [] OTHER  -> CharRef(b)

\* The number of continuation bytes a lead byte asks for; 0 for a byte that
\* starts no sequence.
Utf8Need(b) ==
  IF b \in 194..223 THEN 1
  ELSE IF b \in 224..239 THEN 2
  ELSE IF b \in 240..244 THEN 3
  ELSE 0

\* The range of the first continuation byte after lead byte b.
Utf8Lower(b) == IF b = 224 THEN 160 ELSE IF b = 240 THEN 144 ELSE 128
Utf8Upper(b) == IF b = 237 THEN 159 ELSE IF b = 244 THEN 143 ELSE 191

\* Whether the k-th continuation byte after the lead of bytes is there and valid.
ValidContinuation(bytes, k) ==
  /\ Len(bytes) >= k + 1
  /\ IF k = 1 THEN bytes[2] \in Utf8Lower(bytes[1])..Utf8Upper(bytes[1])
     ELSE bytes[k + 1] \in 128..191

\* The number of valid continuation bytes that follow the lead of bytes, at
\* most as many as it asks for.
Utf8Got(bytes) ==
  CHOOSE k \in 0..Utf8Need(bytes[1]) :
    /\ \A j \in 1..k : ValidContinuation(bytes, j)
    /\ k = Utf8Need(bytes[1]) \/ ~ValidContinuation(bytes, k + 1)

\* The code point of a complete sequence of n continuation bytes.
Utf8CodePoint(bytes, n) ==
  CASE n = 1 -> (bytes[1] - 192) * 64 + (bytes[2] - 128)
    [] n = 2 -> (bytes[1] - 224) * 4096 + (bytes[2] - 128) * 64 + (bytes[3] - 128)
    [] n = 3 -> (bytes[1] - 240) * 262144 + (bytes[2] - 128) * 4096
                  + (bytes[3] - 128) * 64 + (bytes[4] - 128)

RECURSIVE toString(_)
\* Buffer.prototype.toString(): UTF-8 decoding of a byte sequence into
\* characters. A complete sequence is its character; a byte that starts no
\* sequence, or a sequence cut short, decodes to one U+FFFD and decoding
\* resumes at the first byte that does not continue it.
toString(bytes) ==
  IF bytes = << >> THEN << >>
  ELSE IF bytes[1] < 128
       THEN << AsciiChar(bytes[1]) >> \o toString(Tail(bytes))
  ELSE IF Utf8Need(bytes[1]) = 0
       THEN << CharRef(65533) >> \o toString(Tail(bytes))
  ELSE IF Utf8Got(bytes) = Utf8Need(bytes[1])
       THEN << CharRef(Utf8CodePoint(bytes, Utf8Need(bytes[1]))) >>
            \o toString(SubSeq(bytes, Utf8Need(bytes[1]) + 2, Len(bytes)))
  ELSE << CharRef(65533) >> \o toString(SubSeq(bytes, Utf8Got(bytes) + 2, Len(bytes)))

\* ------------------------------------------------------------------ state

VARIABLES
  argv,        \* the command line: input, output, level, hasLevel, verbose
  inputExists, \* whether the input path exists on disk
  runtime,     \* what the runtime does with an unhandled rejection
  options,     \* the options object (program.opts()), mutated by validation
  req,         \* input, output, level, verbose as destructured at line 60
  pc,          \* "start", "running" (waiting for events) or "exited"
  exitCode,    \* the process's exit status once pc = "exited"
  caught,      \* whether the outer catch block of compressPdf has run
  console,     \* the lines written to the console, in order
  bar,         \* the progress bar: started, active, value
  timer,       \* whether the interval timer progressUpdater is set
  promise,     \* the promise created around spawn: state and reason
  child,       \* the engine process: state, spawn error, exit code, and
               \* whether the output file exists when it closes
  stdoutData,  \* accumulated standard output text
  stderrData,  \* accumulated standard error text
  emitted,     \* the chunks the child has emitted, in arrival order
  gsArgs       \* the argument vector handed to spawn

vars == << argv, inputExists, runtime, options, req, pc, exitCode, caught,
           console, bar, timer, promise, child, stdoutData, stderrData,
           emitted, gsArgs >>

\* ----------------------------------------------------------------- inputs

InputPaths ==
  { << ".", "/", "a", ".", "p", "d", "f" >>,
    << "d", "/", "B", ".", "P", "D", "F" >>,
    << "c", ".", "t", "x", "t" >>,
    << "p", "d", "f" >> }

\* <<>> is an absent -o option.
OutputPaths == { << >>, << "o", ".", "p", "d", "f" >> }

RawLevels ==
  { << "1" >>, << "2" >>, << "4" >>,
    << "0" >>, << "6" >>, << "a", "b", "c" >>, << >>,
    << "-", "1" >>, << "1", "0" >>, << "7", "x" >>, << "x", "4" >>,
    << "0", "x", "5" >>, << "0", "x", "1", "0" >>, << " ", "7" >>,
    << "\f", "3" >>, << "-", "1", "0", "0", "0", "0", "0", "0" >> }

\* The default of the --level option.
DefaultLevel == << "3" >>

\* Error codes with which spawn can fail; "none" = the child starts.
SpawnErrors == { "none", "ENOENT", "EACCES", "E2BIG", "EMFILE" }

\* The failures spawn throws at its caller instead of emitting 'error'.
ThrownSpawnErrors == { "E2BIG" }

\* The failures after which spawn returns a child that has no stdout and no
\* stderr stream (no descriptor is left) and that emits 'error' and nothing
\* else.
StreamlessSpawnErrors == { "EMFILE" }

\* The message of the TypeError that reading .on of the missing stdout
\* raises at line 113; its wording depends on the version of the engine,
\* and the runtimes that only warn all have the older one.
TypeErrorMessages(rt) ==
  IF rt = "warn"
  THEN { "Cannot read property 'on' of undefined" }
  ELSE { "Cannot read property 'on' of undefined",
         "Cannot read properties of undefined (reading 'on')" }

\* The code 'close' carries after a failed spawn: the negated errno.
SpawnExitCode(err) == IF err = "ENOENT" THEN Num(-2) ELSE Num(-13)

\* What 'close' carries for a child that ran: its exit code, or null when a
\* signal ended it.
ExitCodes == { Num(0), Num(1), Null }

\* Chunks a stream delivers: "Error: /undefined in foo\n", and U+00E9
\* followed by the first two bytes of a three-byte character that the chunk
\* boundary cuts off.
Chunks ==
  { << 69, 114, 114, 111, 114, 58, 32, 47, 117, 110, 100, 101, 102, 105, 110,
       101, 100, 32, 105, 110, 32, 102, 111, 111, 10 >>,
    << 195, 169, 226, 130 >> }

\* The README asks for Node.js 12 or later, which covers both defaults.
\* "throw": an unhandled rejection ends the process with status 1.
\* "warn": it prints a warning and the process goes on.
Runtimes == { "throw", "warn" }

NoRequest == [input |-> << >>, output |-> << >>, level |-> Num(0), verbose |-> FALSE]

\* program.opts() for a command line.
programOpts(a) ==
  [input   |-> a.input,
   output  |-> a.output,
   level   |-> IF a.hasLevel THEN a.level ELSE DefaultLevel,
   verbose |-> a.verbose]

Init ==
  /\ argv \in { a \in [input : InputPaths, output : OutputPaths, level : RawLevels,
                       hasLevel : BOOLEAN, verbose : BOOLEAN] :
                  ~a.hasLevel => a.level = << >> }
  /\ inputExists \in BOOLEAN
  /\ runtime \in Runtimes
  /\ options = programOpts(argv)
  /\ req = NoRequest
  /\ pc = "start"
  /\ exitCode = 0
  /\ caught = FALSE
  /\ console = << >>
  /\ bar = [started |-> FALSE, active |-> FALSE, value |-> 0]
  /\ timer = FALSE
  /\ promise = [state |-> "none", reason |-> NoError]
  /\ child = [state |-> "none", err |-> "none", code |-> Num(0), outputExists |-> FALSE]
  /\ stdoutData = ""
  /\ stderrData = ""
  /\ emitted = << >>
  /\ gsArgs = << >>

\* ----------------------------------------------------------- progress bar

\* progressBar.start(100, 0).
barStart(b) == [started |-> TRUE, active |-> TRUE, value |-> 0]

\* progressBar.update(v), for a bar that draws (a terminal is attached).
barUpdate(b, v) == [b EXCEPT !.value = v]

\* progressBar.stop().
barStop(b) == [b EXCEPT !.active = FALSE]

Min(a, b) == IF a < b THEN a ELSE b

\* The callback of the interval timer.
progressUpdater(b) == barUpdate(b, Min(b.value + 5, 99))

\* ---------------------------------------------------------------- promise

\* resolve() of the promise created around spawn: the first settlement wins.
resolve(p) ==
  IF p.state = "pending" THEN [state |-> "fulfilled", reason |-> NoError] ELSE p

\* reject(err) of the promise created around spawn: the first settlement wins.
reject(p, err) ==
  IF p.state = "pending" THEN [state |-> "rejected", reason |-> err] ELSE p

\* --------------------------------------------------------- child handlers

\* What the handlers of the child's terminal events read and write.
HandlerState == [bar |-> bar, timer |-> timer, promise |-> promise, console |-> console]

\* The variant of the 'close' handler that reports success without looking
\* for the output file.
closeHandler_NoExistsCheck(h, code, outputExists, stderrText) ==
  IF code = Num(0)
  THEN [h EXCEPT !.timer = FALSE,
                 !.bar = barStop(barUpdate(@, 100)),
                 !.console = @ \o << Line(145, "\nPDF compression completed successfully!"),
                                     Line(146, "Output file size"),
                                     Line(147, "Compression ratio") >>,
                 !.promise = resolve(@)]
  ELSE [h EXCEPT !.timer = FALSE,
                 !.bar = barStop(@),
                 !.promise = reject(@, Error("Ghostscript exited with code "
                                               \o JsText(code) \o ": " \o stderrText, 154))]

\* The variant of the 'close' handler that leaves the timer running when
\* the child failed.
closeHandler_NoClearOnFailure(h, code, outputExists, stderrText) ==
  IF code = Num(0)
  THEN IF outputExists
       THEN [h EXCEPT !.timer = FALSE,
                      !.bar = barStop(barUpdate(@, 100)),
                      !.console = @ \o << Line(145, "\nPDF compression completed successfully!"),
                                          Line(146, "Output file size"),
                                          Line(147, "Compression ratio") >>,
                      !.promise = resolve(@)]
       ELSE [h EXCEPT !.timer = FALSE,
                      !.bar = barStop(barUpdate(@, 100)),
                      !.promise = reject(@, Error("Output file was not created despite successful Ghostscript execution", 150))]
  ELSE [h EXCEPT !.bar = barStop(@),
                 !.promise = reject(@, Error("Ghostscript exited with code "
                                               \o JsText(code) \o ": " \o stderrText, 154))]

\* The handler of the child's 'close' event (lines 129-156). The size
\* figures of the statistics lines are not modelled, only that they print.
closeHandler(h, code, outputExists, stderrText) ==
  IF code = Num(0)
  THEN IF outputExists
       THEN [h EXCEPT !.timer = FALSE,
                      !.bar = barStop(barUpdate(@, 100)),
                      !.console = @ \o << Line(145, "\nPDF compression completed successfully!"),
                                          Line(146, "Output file size"),
                                          Line(147, "Compression ratio") >>,
                      !.promise = resolve(@)]
       ELSE [h EXCEPT !.timer = FALSE,
                      !.bar = barStop(barUpdate(@, 100)),
                      !.promise = reject(@, Error("Output file was not created despite successful Ghostscript execution", 150))]
  ELSE [h EXCEPT !.timer = FALSE,
                 !.bar = barStop(@),
                 !.promise = reject(@, Error("Ghostscript exited with code "
                                               \o JsText(code) \o ": " \o stderrText, 154))]

EngineNotFoundMessage ==
  "Ghostscript (gs) executable not found. Please make sure Ghostscript is installed on your system."

\* err.message of the error a failed spawn of `gs` emits.
SpawnErrorMessage(errCode) == "spawn gs " \o errCode

\* The variant of the 'error' handler that does not reject the promise.
errorHandler_NoReject(h, errCode) ==
  [h EXCEPT !.timer = FALSE, !.bar = barStop(@)]

\* The variant of the 'error' handler that does not look at err.code.
errorHandler_NoCodeTest(h, errCode) ==
  [h EXCEPT !.timer = FALSE,
            !.bar = barStop(@),
            !.promise = reject(@, Error("Failed to start Ghostscript process: "
                                          \o SpawnErrorMessage(errCode), 166))]

\* The handler of the child's 'error' event (lines 159-168).
errorHandler(h, errCode) ==
  [h EXCEPT !.timer = FALSE,
            !.bar = barStop(@),
            !.promise =
              IF errCode = "ENOENT"
              THEN reject(@, Error(EngineNotFoundMessage, 164))
              ELSE reject(@, Error("Failed to start Ghostscript process: "
                                     \o SpawnErrorMessage(errCode), 166))]

\* The variant of the stderr handler's accumulation that prepends.
appendData_Prepend(acc, data) == Str(toString(data)) \o acc

\* acc += data.toString() (lines 114 and 122).
appendData(acc, data) == acc \o Str(toString(data))

\* ------------------------------------------------------------- compressPdf

\* What the outer catch block of compressPdf prints (lines 176-179); the
\* first line of error.stack stands for the stack.
catchLines(error, verbose) ==
  << Line(176, "Error: " \o error.message) >>
  \o (IF verbose THEN << Line(178, "Error: " \o error.message) >> ELSE << >>)

\* The lines printed between validation and the progress bar (lines 62-71).
\* The size figure of line 71 is not modelled.
startLines(r) ==
  << Line(62, "Starting PDF compression..."),
     Line(63, "Input: " \o Str(r.input)),
     Line(64, "Output: " \o Str(r.output)),
     Line(65, "Compression level: " \o JsText(r.level)),
     Line(71, "Input file size") >>

\* Line 95, printed in verbose mode.
commandLines(args, verbose) ==
  IF verbose THEN << Line(95, "Ghostscript command: gs " \o Join(args, " ")) >>
  ELSE << >>

\* The promise compressPdf returns is the one created around spawn, returned
\* without await (line 99), and the call at line 300 attaches no handler: a
\* rejection of it never enters the catch block of compressPdf and is an
\* unhandled rejection, which the runtime reports right after the handler
\* that rejected.
Unhandled(before, after) == before.state = "pending" /\ after.state = "rejected"

unhandledLines(before, after) ==
  IF Unhandled(before, after)
  THEN << Line(300, IF runtime = "throw"
                    THEN "Uncaught Error: " \o after.reason.message
                    ELSE "UnhandledPromiseRejectionWarning: Error: "
                           \o after.reason.message) >>
  ELSE << >>

\* compressPdf up to the return of the promise (lines 58-110 and 175-181):
\* validation; on a throw the outer catch prints and exits with status 1;
\* otherwise the bar is started, the argument vector is built and the engine
\* is spawned. When spawn throws, the executor of the promise ends there:
\* the promise is rejected with the error spawn threw, no timer is set, no
\* handler is registered and the bar is left started. When spawn returns a
\* child without streams, the timer is set at line 107 and line 113 throws:
\* the promise is rejected with that TypeError, no handler is registered,
\* and the timer and the bar are left as they are. Otherwise the interval
\* timer is set and the handlers are registered.
CompressPdf ==
  /\ pc = "start"
  /\ \E v \in { validateOptions(options, inputExists) } :
       IF v.thrown # NoError
       THEN /\ options' = v.options
            /\ console' = console \o v.notices \o catchLines(v.thrown, options.verbose)
            /\ caught' = TRUE
            /\ pc' = "exited"
            /\ exitCode' = 1
            /\ UNCHANGED << req, bar, timer, promise, child, gsArgs >>
       ELSE \E r \in { [input   |-> v.options.input,
                         output  |-> v.options.output,
                         level   |-> v.level,
                         verbose |-> v.options.verbose] } :
            \E args \in { gsOptionsFor(v.level, v.options.output, v.options.input) } :
            \E pending \in { [state |-> "pending", reason |-> NoError] } :
              /\ options' = [v.options EXCEPT !.level = v.level]
              /\ req' = r
              /\ bar' = barStart(bar)
              /\ gsArgs' = args
              /\ \E err \in SpawnErrors :
                   IF err \in ThrownSpawnErrors
                   THEN /\ child' = [child EXCEPT !.state = "threw", !.err = err]
                        /\ timer' = FALSE
                        /\ promise' = reject(pending, Error("spawn " \o err, 101))
                        /\ console' = console \o v.notices \o startLines(r)
                                        \o commandLines(args, r.verbose)
                                        \o unhandledLines(pending,
                                             reject(pending, Error("spawn " \o err, 101)))
                        /\ pc' = IF runtime = "throw" THEN "exited" ELSE "running"
                        /\ exitCode' = IF runtime = "throw" THEN 1 ELSE exitCode
                   ELSE IF err \in StreamlessSpawnErrors
                   THEN /\ child' = [child EXCEPT !.state = "unheard", !.err = err]
                        /\ timer' = TRUE
                        /\ \E message \in TypeErrorMessages(runtime) :
                             promise' = reject(pending, Error(message, 113))
                        /\ console' = console \o v.notices \o startLines(r)
                                        \o commandLines(args, r.verbose)
                        /\ pc' = "running"
                        /\ exitCode' = exitCode
                   ELSE /\ child' = [child EXCEPT
                               !.state = IF err = "none" THEN "running" ELSE "failing",
                               !.err = err]
                        /\ timer' = TRUE
                        /\ promise' = pending
                        /\ console' = console \o v.notices \o startLines(r)
                                        \o commandLines(args, r.verbose)
                        /\ pc' = "running"
                        /\ exitCode' = exitCode
              /\ UNCHANGED caught
  /\ UNCHANGED << argv, inputExists, runtime, stdoutData, stderrData, emitted >>

\* One firing of the interval timer (lines 107-110). A failed spawn emits
\* 'error' on the next tick of the event loop, before any timer can fire.
ProgressUpdater ==
  /\ pc = "running"
  /\ timer
  /\ child.state \notin {"failing", "unheard"}
  /\ bar' = progressUpdater(bar)
  /\ UNCHANGED << argv, inputExists, runtime, options, req, pc, exitCode, caught,
                  console, timer, promise, child, stdoutData, stderrData,
                  emitted, gsArgs >>

\* A 'data' event of the child's standard output (lines 113-118).
OnStdoutData ==
  /\ pc = "running"
  /\ child.state = "running"
  /\ Len(emitted) < MaxChunks
  /\ \E data \in Chunks :
       /\ stdoutData' = appendData(stdoutData, data)
       /\ console' = IF req.verbose
                     THEN Append(console,
                                 Line(116, "GS stdout: " \o Str(trim(toString(data)))))
                     ELSE console
       /\ emitted' = Append(emitted, [stream |-> "stdout", data |-> data])
  /\ UNCHANGED << argv, inputExists, runtime, options, req, pc, exitCode, caught,
                  bar, timer, promise, child, stderrData, gsArgs >>

\* A 'data' event of the child's standard error (lines 121-126).
OnStderrData ==
  /\ pc = "running"
  /\ child.state = "running"
  /\ Len(emitted) < MaxChunks
  /\ \E data \in Chunks :
       /\ stderrData' = appendData(stderrData, data)
       /\ console' = IF req.verbose
                     THEN Append(console,
                                 Line(124, "GS stderr: " \o Str(trim(toString(data)))))
                     ELSE console
       /\ emitted' = Append(emitted, [stream |-> "stderr", data |-> data])
  /\ UNCHANGED << argv, inputExists, runtime, options, req, pc, exitCode, caught,
                  bar, timer, promise, child, stdoutData, gsArgs >>

\* The part of a terminal handler's step all of them share: its writes, and
\* the runtime's reaction to a rejection.
Settle(h) ==
  /\ bar' = h.bar
  /\ timer' = h.timer
  /\ promise' = h.promise
  /\ console' = h.console \o unhandledLines(promise, h.promise)
  /\ pc' = IF Unhandled(promise, h.promise) /\ runtime = "throw" THEN "exited" ELSE pc
  /\ exitCode' = IF Unhandled(promise, h.promise) /\ runtime = "throw" THEN 1 ELSE exitCode

\* The child's 'error' event: the spawn failed.
OnError ==
  /\ pc = "running"
  /\ child.state = "failing"
  /\ Settle(errorHandler(HandlerState, child.err))
  /\ child' = [child EXCEPT !.state = "errored"]
  /\ UNCHANGED << argv, inputExists, runtime, options, req, caught,
                  stdoutData, stderrData, emitted, gsArgs >>

\* The child's 'error' event when the executor ended before line 159 and no
\* listener is registered: the event is an uncaught exception, which ends
\* the process with status 1 whatever the runtime does with rejections. It
\* is emitted on the next tick, before the rejection is reported and before
\* the timer can fire; the runtime itself writes the error.
OnErrorNoListener ==
  /\ pc = "running"
  /\ child.state = "unheard"
  /\ child' = [child EXCEPT !.state = "uncaught"]
  /\ pc' = "exited"
  /\ exitCode' = 1
  /\ UNCHANGED << argv, inputExists, runtime, options, req, caught, console, bar,
                  timer, promise, stdoutData, stderrData, emitted, gsArgs >>

\* The child's 'close' event: with an exit code of the engine when it ran,
\* with the negated errno after a failed spawn. outputExists is the answer
\* of fs.existsSync(output) at line 138, FALSE when the handler does not ask.
OnClose ==
  /\ pc = "running"
  /\ child.state \in {"running", "errored"}
  /\ \E code \in (IF child.state = "running" THEN ExitCodes
                  ELSE {SpawnExitCode(child.err)}),
        outputExists \in BOOLEAN :
       /\ code # Num(0) => ~outputExists
       /\ Settle(closeHandler(HandlerState, code, outputExists, stderrData))
       /\ child' = [child EXCEPT !.state = "closed", !.code = code,
                                 !.outputExists = outputExists]
  /\ UNCHANGED << argv, inputExists, runtime, options, req, caught,
                  stdoutData, stderrData, emitted, gsArgs >>

\* The process ends with status 0 once nothing is left to wait for: the
\* child has closed, or was never started because spawn threw, and the
\* interval timer is not set. (The bar is taken to keep no timer of its own.)
EventLoopDrain ==
  /\ pc = "running"
  /\ child.state \in {"closed", "threw"}
  /\ ~timer
  /\ pc' = "exited"
  /\ exitCode' = 0
  /\ UNCHANGED << argv, inputExists, runtime, options, req, caught, console, bar,
                  timer, promise, child, stdoutData, stderrData, emitted, gsArgs >>

Next ==
  \/ CompressPdf
  \/ ProgressUpdater
  \/ OnStdoutData
  \/ OnStderrData
  \/ OnError
  \/ OnErrorNoListener
  \/ OnClose
  \/ EventLoopDrain

Spec == Init /\ [][Next]_vars

\* ================================================================= claims

\* The failure kinds of the specification, told apart by the source line of
\* the `new Error` that creates them.
InputNotFound    == 32
InvalidInputType == 37
InvalidLevel     == 50
OutputMissing    == 150
EngineFailure    == 154
EngineNotFound   == 164
StartFailure     == 166

Printed(line) == \E i \in 1..Len(console) : console[i].at = line

Settled == promise.state \in {"fulfilled", "rejected"}

Rejected(kind) == promise.state = "rejected" /\ promise.reason.at = kind

\* A terminal event of the child ('error' or 'close') has been handled.
TerminalHandled == child.state \in {"errored", "closed"}

\* The invocation has failed: validation threw, or the promise was rejected.
Failed == (pc = "exited" /\ child.state = "none") \/ promise.state = "rejected"

\* ----------------------------------------------------------------------- C1
\* C1: every failure of an invocation that has ended went through the outer
\* catch block of compressPdf, which printed the "Error: ..." line and ended
\* the process with status 1.
C1_EveryFailureReachesHandler ==
  (pc = "exited" /\ Failed) => (caught /\ Printed(176) /\ exitCode = 1)

\* ----------------------------------------------------------------------- C2
\* The numbers 1..5 as values of the program.
Levels == {Num(n) : n \in 1..5}

\* The level string the option resolver must reject.
LevelRejected(raw) == parseInt(raw) \notin Levels

\* The command line is one that validateOptions fails on.
ValidationMustFail ==
  \/ ~inputExists
  \/ ~endsWith(toLowerCase(argv.input), PdfSuffix)
  \/ LevelRejected(programOpts(argv).level)

\* C2: when validation fails nothing is spawned, no argument vector is built
\* and no progress bar or timer is started; a spawned engine implies a
\* validated request with a level in 1..5.
C2_NoSpawnOnInvalidOptions ==
  /\ ValidationMustFail =>
       (child.state = "none" /\ gsArgs = << >> /\ ~bar.started /\ ~timer
          /\ promise.state = "none")
  /\ child.state # "none" => req.level \in Levels

C2_Witness ==
  /\ pc = "exited"
  /\ inputExists
  /\ endsWith(toLowerCase(argv.input), PdfSuffix)
  /\ argv.hasLevel /\ argv.level = << "6" >>
  /\ caught /\ Printed(176)

\* ----------------------------------------------------------------------- C3
\* C3: a child that closed with code 0 without an output file yields the
\* OutputMissing rejection and prints neither the success line nor the
\* statistics; success is reported and statistics are printed only for a
\* child that closed with code 0 and whose output file exists.
C3_OutputMissingIsNoSuccess ==
  /\ (child.state = "closed" /\ child.code = Num(0) /\ ~child.outputExists) =>
       (Rejected(OutputMissing) /\ ~Printed(145) /\ ~Printed(146) /\ ~Printed(147))
  /\ (promise.state = "fulfilled" \/ Printed(145) \/ Printed(146) \/ Printed(147)) =>
       (child.state = "closed" /\ child.code = Num(0) /\ child.outputExists)

C3_Witness ==
  /\ child.state = "closed" /\ child.code = Num(0) /\ ~child.outputExists
  /\ Rejected(OutputMissing)

\* ----------------------------------------------------------------------- C4
\* C4: once a spawn that failed with ENOENT has emitted 'error', the outcome
\* is EngineNotFound, also after the 'close' event that follows with a
\* nonzero code; EngineFailure is the outcome only of a child that started
\* and closed with a nonzero code.
C4_NotFoundIsNotFailure ==
  /\ (child.err = "ENOENT" /\ TerminalHandled) => Rejected(EngineNotFound)
  /\ Rejected(EngineFailure) =>
       (child.err = "none" /\ child.state = "closed" /\ child.code # Num(0))

C4_Witness ==
  /\ child.err = "ENOENT" /\ child.state = "closed" /\ child.code # Num(0)
  /\ Rejected(EngineNotFound)

\* ----------------------------------------------------------------------- C5
\* C5: the progress value is 100 only when the child closed with code 0 and
\* the output file was found (the invocation succeeded), and never exceeds
\* 99 while the timer is set.
C5_FullOnlyOnSuccess ==
  /\ bar.value = 100 =>
       (child.state = "closed" /\ child.code = Num(0) /\ child.outputExists
          /\ promise.state = "fulfilled")
  /\ timer => bar.value <= 99

\* ----------------------------------------------------------------------- C6
RECURSIVE StderrText(_)
\* The decoded stderr chunks of a history of emitted chunks, concatenated in
\* arrival order.
StderrText(events) ==
  IF events = << >> THEN ""
  ELSE (IF Head(events).stream = "stderr" THEN Str(toString(Head(events).data)) ELSE "")
       \o StderrText(Tail(events))

\* C6: a child that started and closed with a nonzero code c yields the
\* EngineFailure rejection whose message carries c and exactly the stderr
\* chunks in arrival order, whatever arrived in between and whether or not
\* verbose is set.
C6_FailureCarriesCodeAndStderr ==
  (child.state = "closed" /\ child.err = "none" /\ child.code # Num(0)) =>
    /\ Rejected(EngineFailure)
    /\ promise.reason.message =
         "Ghostscript exited with code " \o JsText(child.code) \o ": "
           \o StderrText(emitted)

C6_Witness ==
  /\ child.state = "closed" /\ child.code = Num(1)
  /\ Len(emitted) = 2
  /\ emitted[1].stream = "stdout" /\ emitted[2].stream = "stderr"
  /\ bar.value = 10
  /\ ~req.verbose
  /\ promise.reason.message =
       "Ghostscript exited with code 1: Error: /undefined in foo\n"

\* ----------------------------------------------------------------------- C7
\* The profile table of the specification: quality preset, compatibility
\* version, colour / gray / mono resolution and JPEG quality per level.
SpecPreset == << "prepress", "printer", "ebook", "ebook", "screen" >>
SpecCompat == << "1.7", "1.6", "1.5", "1.5", "1.4" >>
SpecColorDpi == << 300, 150, 110, 96, 72 >>
SpecGrayDpi == << 300, 150, 110, 96, 72 >>
SpecMonoDpi == << 300, 200, 150, 150, 72 >>
SpecJpegQ == << 95, 85, 80, 75, 50 >>

\* The options of the profile of level L, as the switch lists them.
ProfileOptions(L) ==
  CASE L = 1 -> Level1Options
    [] L = 2 -> Level2Options
    [] L = 3 -> Level3Options
    [] L = 4 -> Level4Options
    [] L = 5 -> Level5Options

Has(args, opt) == \E i \in 1..Len(args) : args[i] = opt

\* The argument vector args is the one of level L for the paths given.
IsVectorOf(args, L, output, input) ==
  \E n \in { Len(args) } :
  \E profile \in { SubSeq(args, 6, n - 2) } :
  \E inputArg \in { Str(input) } :
    /\ n = 5 + Len(ProfileOptions(L)) + 2
    /\ SubSeq(args, 1, 5) =
         << "-sDEVICE=pdfwrite", "-dNOPAUSE", "-dQUIET", "-dBATCH", "-dSAFER" >>
    /\ profile = ProfileOptions(L)
    /\ profile[1] = "-dPDFSETTINGS=/" \o SpecPreset[L]
    /\ profile[2] = "-dCompatibilityLevel=" \o SpecCompat[L]
    /\ profile[3] = "-dColorImageResolution=" \o ToString(SpecColorDpi[L])
    /\ profile[4] = "-dGrayImageResolution=" \o ToString(SpecGrayDpi[L])
    /\ profile[5] = "-dMonoImageResolution=" \o ToString(SpecMonoDpi[L])
    /\ \A K \in 1..5 : Has(profile, "-dJPEGQ=" \o ToString(SpecJpegQ[K])) <=> K = L
    /\ Has(profile, "-dOptimize=true") <=> L = 5
    /\ args[n - 1] = "-sOutputFile=" \o Str(output)
    /\ args[n] = inputArg
    /\ \A i \in 1..(n - 1) : args[i] # inputArg

\* C7: the vector handed to the engine is the base options, the profile of
\* the validated level and of no other, the output-file option and the
\* input path last; an omitted level option selects profile 3.
C7_ArgumentVector ==
  child.state # "none" =>
    /\ req.level \in Levels
    /\ req.level = parseInt(programOpts(argv).level)
    /\ req.input = argv.input
    /\ IsVectorOf(gsArgs, req.level.num, req.output, req.input)
    /\ ~argv.hasLevel => (req.level = Num(3) /\ Has(gsArgs, "-dJPEGQ=80")
                            /\ Has(gsArgs, "-dColorImageResolution=110"))

C7_Witness ==
  /\ child.state = "running"
  /\ ~argv.hasLevel
  /\ argv.output = << >>
  /\ gsArgs[Len(gsArgs)] = "./a.pdf"
  /\ gsArgs[Len(gsArgs) - 1] = "-sOutputFile=a-compressed.pdf"
  /\ gsArgs[6] = "-dPDFSETTINGS=/ebook"

\* ----------------------------------------------------------------------- C8
\* C8: once a terminal event of the child has been handled the interval
\* timer is cleared and the bar is stopped, and no later step changes the
\* progress value.
C8_TimerCancelledOnTerminal ==
  /\ [](TerminalHandled => (~timer /\ ~bar.active))
  /\ [][TerminalHandled => bar'.value = bar.value]_vars

C8_Witness ==
  /\ child.state = "closed" /\ child.code # Num(0) /\ child.err = "none"
  /\ bar.value = 15
  /\ ~timer /\ ~bar.active
  /\ pc = "running"

\* ----------------------------------------------------------------------- C9
\* C9: whenever getGsOptionsForLevel has been called, its argument is the
\* number validateOptions parsed, an integer in 1..5, so the default branch
\* of the switch was not taken, for every raw level string.
C9_DefaultBranchUnreachable ==
  child.state # "none" =>
    /\ req.level = parseInt(programOpts(argv).level)
    /\ req.level \in Levels
    /\ ~TakesDefaultBranch(req.level)

C9_Witness ==
  /\ child.state # "none"
  /\ argv.hasLevel /\ argv.level = << "0", "x", "5" >>
  /\ options.level = Num(5)
  /\ req.level = Num(5)
  /\ Has(gsArgs, "-dJPEGQ=50")

\* ---------------------------------------------------------------------- C10
\* The outcome the first terminal event of the child decides.
FirstTerminalOutcome ==
  IF child.err = "ENOENT" THEN Rejected(EngineNotFound)
  ELSE IF child.err # "none" THEN Rejected(StartFailure)
  ELSE IF child.code # Num(0) THEN Rejected(EngineFailure)
  ELSE IF ~child.outputExists THEN Rejected(OutputMissing)
  ELSE promise.state = "fulfilled"

\* C10: the promise settles at most once (a settled promise never changes,
\* whatever event follows), once a terminal event of the child has been
\* handled it is settled with the outcome of the first such event, and it
\* is settled as well when 'error' was delivered to no listener.
C10_SingleCompletion ==
  /\ [][Settled => promise' = promise]_vars
  /\ [](TerminalHandled => (Settled /\ FirstTerminalOutcome))
  /\ [](child.state = "uncaught" => Settled)

C10_Witness ==
  /\ child.state = "closed" /\ child.err = "EACCES" /\ child.code # Num(0)
  /\ Rejected(StartFailure)
  /\ promise.reason.message = "Failed to start Ghostscript process: spawn gs EACCES"

====
